---- MODULE Spec2Model ----
(***************************************************************************)
(* A model of the Nifty50 analyzer: the indicator-and-scoring pipeline of  *)
(* utils.py (calculate_indicators, score_stock, classify_signal,           *)
(* compute_future_potential, as fetch_and_analyze chains them), the        *)
(* notifier send_telegram_message, and the refresh cycle of main.py (scan  *)
(* loop, ranking, top-10 message, stop-loss pass).                         *)
(*                                                                         *)
(* Numbers.  Prices, volumes and the outputs of the technical-analysis     *)
(* library are integers; stoch_rsi, which lives in [0,1], is held in       *)
(* tenths.  Quotients the source computes (vwap, vol_avg_20, pct_change,   *)
(* means) are exact rationals [num, den]; a zero denominator is the        *)
(* IEEE result of the division: num > 0 is +inf, num = 0 is NaN.           *)
(* Floating-point rounding is not modelled.                                *)
(***************************************************************************)
EXTENDS Integers, Sequences, FiniteSets, TLC

VARIABLES
    \* ---- fetch_and_analyze (utils.py 322-367)
    pc,         \* position inside fetch_and_analyze
    bars,       \* the fetched frame: a sequence of [high, low, close, volume]
    lib,        \* what the ta library returned inside calculate_indicators
    df,         \* the frame after calculate_indicators: bars + indicator columns
    score,      \* score_stock(df)
    signal,     \* classify_signal(score, df)
    future_potential,  \* the trend over the last trend_minutes bars
    daysArg,    \* the horizon handed to compute_future_potential
    future,     \* compute_future_potential(df, days)
    \* ---- send_telegram_message (utils.py 64-94)
    npc, bot_token, chat_ids, nIdx, sendResults, requests, httpLog,
    \* ---- the refresh cycle of main.py (140-265)
    mpc, outcome, sIdx, visited, all_data, forecast_data, results, df_res, top_10,
    portfolio, pIdx, alerts, sent,
    \* ---- auto_add_new_chats (utils.py 17-62)
    apc,                 \* position inside auto_add_new_chats
    TELEGRAM_BOT_TOKEN,  \* config.py 17: the environment's token, "" when unset
    chat_file,           \* chat_ids.json: [exists, ids]
    aa_chat_ids,         \* the local list chat_ids of auto_add_new_chats
    new_ids,             \* the local list new_ids
    feed,                \* the items of r["result"] not yet looked at
    returned,            \* the list the last call returned
    processed,           \* sender ids of the items the running call processed
    everKnown,           \* every id returned by an earlier call
    calls,               \* calls made so far
    \* ---- fetch_intraday_yfinance (utils.py 97-146)
    fpc,          \* position inside fetch_intraday_yfinance / fetch_and_analyze
    max_retries,  \* the argument max_retries
    attempt,      \* download attempts made
    attemptLog,   \* how each attempt ended
    raw,          \* the frame the last download returned
    fetched,      \* what fetch_intraday_yfinance returned: [none, rows]
    fa_return,    \* fetch_and_analyze at line 324: "None" or "goes on"
    \* ---- the sidebar of main.py (59-96); the portfolio itself is the
    \* variable portfolio above
    portfolio_file,  \* portfolio.json
    sidebar          \* the message the last Enter Buy / Enter Sell showed

pipeVars   == <<pc, bars, lib, df, score, signal, future_potential, daysArg, future>>
notifyVars == <<npc, bot_token, chat_ids, nIdx, sendResults, requests, httpLog>>
mainVars   ==
    <<mpc, outcome, sIdx, visited, all_data, forecast_data, results, df_res, top_10,
      portfolio, pIdx, alerts, sent>>
chatVars   ==
    <<apc, TELEGRAM_BOT_TOKEN, chat_file, aa_chat_ids, new_ids, feed, returned,
      processed, everKnown, calls>>
fetchVars  == <<fpc, max_retries, attempt, attemptLog, raw, fetched, fa_return>>
bookVars   == <<portfolio_file, sidebar>>
extVars    == <<chatVars, fetchVars, bookVars>>
vars       == <<pipeVars, notifyVars, mainVars, extVars>>

---------------------------------------------------------------------------
\* Bounds of the model.
MaxTail   == 1      \* bars drawn freely at the end of a series
MaxChats  == 3      \* destinations of one send_telegram_message call
MaxDays   == 3      \* largest forecast horizon besides the default one
MaxSymbols == 3     \* symbols of the universe that one cycle scans
MaxFeed   == 2      \* updates in one feed of getUpdates
MaxCalls  == 3      \* calls of auto_add_new_chats in one session
MaxRetries == 3     \* largest max_retries handed to fetch_intraday_yfinance
MaxRows   == 2      \* rows of a downloaded frame
MaxHeld   == 2      \* symbols the sidebar offers to buy
MaxQty    == 2      \* largest quantity entered in a buy

\* Program constants.
NaN            == -999999  \* np.nan in an integer column
MinBars        == 20       \* utils.py 168, 209
ObvWindow      == 20       \* utils.py 270: obv.rolling(20)
VolWindow      == 20       \* utils.py 194: rolling(20, min_periods=1)
forecast_days  == 10       \* utils.py 322
trend_minutes  == 30       \* utils.py 322
ObvMinLen      == 21       \* utils.py 269
STOP_LOSS_PERCENT == 2     \* config.py 24
TOTAL_CAPITAL  == 1000000  \* config.py 23, in rupees
TopK           == 10       \* main.py 197, 207: head(10)

---------------------------------------------------------------------------
\* Arithmetic helpers.

RECURSIVE Gcd(_, _)
Gcd(a, b) == IF b = 0 THEN a ELSE Gcd(b, a % b)

Abs(x) == IF x < 0 THEN -x ELSE x

Sign(x) == IF x > 0 THEN 1 ELSE IF x < 0 THEN -1 ELSE 0

\* The rational n/d in lowest terms with d > 0; d = 0 keeps only the sign of n
\* (1/0 = +inf, -1/0 = -inf, 0/0 = NaN).
Rat(n, d) ==
    IF d = 0 THEN [num |-> Sign(n), den |-> 0]
    ELSE LET g == Gcd(Abs(n), Abs(d))
             s == IF d < 0 THEN -1 ELSE 1
         IN  [num |-> s * (n \div g), den |-> s * (d \div g)]

RatNaN    == [num |-> 0, den |-> 0]
RatZero   == [num |-> 0, den |-> 1]
RatIsNaN(r) == r.den = 0 /\ r.num = 0
RatIsInf(r) == r.den = 0 /\ r.num # 0

\* IEEE addition: NaN absorbs, inf - inf = NaN.
RatAdd(a, b) ==
    IF RatIsNaN(a) \/ RatIsNaN(b) THEN RatNaN
    ELSE IF RatIsInf(a) /\ RatIsInf(b) THEN (IF a.num = b.num THEN a ELSE RatNaN)
    ELSE IF RatIsInf(a) THEN a
    ELSE IF RatIsInf(b) THEN b
    ELSE Rat(a.num * b.den + b.num * a.den, a.den * b.den)

\* r times the integer k (0 * inf = NaN).
RatScale(r, k) ==
    IF RatIsNaN(r) THEN RatNaN
    ELSE IF RatIsInf(r) THEN [num |-> Sign(r.num * k), den |-> 0]
    ELSE Rat(r.num * k, r.den)

\* r divided by the integer k.
RatDiv(r, k) ==
    IF RatIsNaN(r) THEN RatNaN
    ELSE IF RatIsInf(r) THEN (IF k = 0 THEN r ELSE [num |-> Sign(r.num * k), den |-> 0])
    ELSE Rat(r.num, r.den * k)

\* a > b as IEEE compares: false when either side is NaN.
RatGT(a, b) ==
    /\ ~RatIsNaN(a) /\ ~RatIsNaN(b)
    /\ IF RatIsInf(a) \/ RatIsInf(b)
       THEN (IF RatIsInf(a) /\ RatIsInf(b) THEN a.num > b.num
             ELSE IF RatIsInf(a) THEN a.num > 0 ELSE b.num < 0)
       ELSE a.num * b.den > b.num * a.den

\* Integer columns: comparisons with NaN are false.
IsNaN(x) == x = NaN
GT(a, b) == ~IsNaN(a) /\ ~IsNaN(b) /\ a > b
LT(a, b) == ~IsNaN(a) /\ ~IsNaN(b) /\ a < b
GE(a, b) == ~IsNaN(a) /\ ~IsNaN(b) /\ a >= b
LE(a, b) == ~IsNaN(a) /\ ~IsNaN(b) /\ a <= b

RECURSIVE SumSeq(_)
SumSeq(s) == IF s = <<>> THEN 0 ELSE Head(s) + SumSeq(Tail(s))

\* The last k elements of s (all of s when it is shorter).
LastN(s, k) == IF Len(s) <= k THEN s ELSE SubSeq(s, Len(s) - k + 1, Len(s))

Max2(a, b) == IF a > b THEN a ELSE b
Min2(a, b) == IF a < b THEN a ELSE b

RatMul(a, b) ==
    IF RatIsNaN(a) \/ RatIsNaN(b) THEN RatNaN
    ELSE IF RatIsInf(a) \/ RatIsInf(b)
         THEN (IF a.num = 0 \/ b.num = 0 THEN RatNaN
               ELSE [num |-> Sign(a.num * b.num), den |-> 0])
    ELSE Rat(a.num * b.num, a.den * b.den)

RatLT(a, b) == RatGT(b, a)

\* An integer column value as a rational (NaN stays NaN).
ToRat(x) == IF IsNaN(x) THEN RatNaN ELSE Rat(x, 1)

---------------------------------------------------------------------------
\* The inputs: fetched bar series, and the outputs of the ta library.

BaseBar == [high |-> 101, low |-> 99, close |-> 100, volume |-> 10]

TailBars ==
    { [high |-> 101, low |-> 99,  close |-> 100, volume |-> 11],
      [high |-> 111, low |-> 109, close |-> 110, volume |-> 16],
      [high |-> 1,   low |-> 0,   close |-> 0,   volume |-> 12],
      [high |-> 100, low |-> 90,  close |-> 90,  volume |-> 0] }

RECURSIVE Repeat(_, _)
Repeat(x, k) == IF k = 0 THEN <<>> ELSE <<x>> \o Repeat(x, k - 1)

RECURSIVE SeqsUpTo(_, _)
SeqsUpTo(S, k) ==
    IF k = 0 THEN {<<>>}
    ELSE LET shorter == SeqsUpTo(S, k - 1)
         IN  shorter \cup {Append(s, x) : s \in shorter, x \in S}

PrefixLens == {0, 1, MinBars - 1, MinBars, trend_minutes}

\* A run of identical bars followed by a free tail: lengths 0, 1, and those
\* around the 20-bar minimum, the 21-bar OBV window and the 30-bar trend.
BarSeries ==
    {Repeat(BaseBar, p) \o t : p \in PrefixLens, t \in SeqsUpTo(TailBars, MaxTail)}

LibFields ==
    {"ema20", "ema50", "rsi", "macd", "macd_hist", "bb_high", "bb_low",
     "atr", "adx", "obv", "obv_prev", "roc", "stoch_rsi"}

\* Values the library may return for the latest bar (obv_prev: the OBV of every
\* earlier bar; stoch_rsi in tenths).
LibVals ==
    [ema20     |-> {99, 100, 101},
     ema50     |-> {100},
     rsi       |-> {0, 29, 30, 60, 61, 74, 75, 85, 86},
     macd      |-> {0},
     macd_hist |-> {-1, 0, 1},
     bb_high   |-> {120},
     bb_low    |-> {0, 100, 111},
     atr       |-> {0, 1, 2},
     adx       |-> {18, 19, 25, 26},
     obv       |-> {0, 20},
     obv_prev  |-> {0, 20},
     roc       |-> {-1, 0, 1},
     stoch_rsi |-> {0, 4, 5, 10}]

\* A snapshot on which no row of the point table holds, and one on which every
\* row fed by the library holds.
LowBase ==
    [ema20 |-> 99, ema50 |-> 100, rsi |-> 75, macd |-> 0, macd_hist |-> 0,
     bb_high |-> 120, bb_low |-> 0, atr |-> 2, adx |-> 18, obv |-> 0,
     obv_prev |-> 0, roc |-> 0, stoch_rsi |-> 5]

HighBase ==
    [ema20 |-> 101, ema50 |-> 100, rsi |-> 30, macd |-> 0, macd_hist |-> 1,
     bb_high |-> 120, bb_low |-> 0, atr |-> 0, adx |-> 26, obv |-> 20,
     obv_prev |-> 0, roc |-> 1, stoch_rsi |-> 4]

\* Every snapshot that differs from one of S in at most one field.
Vary(S) ==
    S \cup UNION {{[f EXCEPT ![k] = v] : f \in S, v \in LibVals[k]} : k \in LibFields}

LibSnapshots == Vary(Vary({LowBase, HighBase}))

\* The library calls of calculate_indicators, in the order of lines 175-187; a
\* call that raises leaves its columns, and every later one, unassigned.
StepOf ==
    [ema20 |-> 1, ema50 |-> 2, rsi |-> 3, macd |-> 4, macd_hist |-> 4,
     bb_high |-> 5, bb_low |-> 5, atr |-> 6, adx |-> 7, obv |-> 8, roc |-> 9,
     stoch_rsi |-> 10]

TaSteps == 1..9

\* failAt = 0: no call raised.  stochFail: the StochRSI call raised (caught by
\* the inner try of lines 188-192).
LibOutcomes ==
    {[vals |-> v, failAt |-> 0, stochFail |-> FALSE, called |-> TRUE] : v \in LibSnapshots}
    \cup {[vals |-> v, failAt |-> k, stochFail |-> FALSE, called |-> TRUE] :
             v \in {LowBase, HighBase}, k \in TaSteps}
    \cup {[vals |-> v, failAt |-> 0, stochFail |-> TRUE, called |-> TRUE] :
             v \in {LowBase, HighBase}}

NoLib == [vals |-> LowBase, failAt |-> 0, stochFail |-> FALSE, called |-> FALSE]

---------------------------------------------------------------------------
\* calculate_indicators (utils.py 149-204).

IntCols ==
    {"ema20", "ema50", "rsi", "macd", "macd_hist", "bb_high", "bb_low",
     "atr", "adx", "roc", "stoch_rsi"}

Closes(b)  == [i \in 1..Len(b) |-> b[i].close]
Volumes(b) == [i \in 1..Len(b) |-> b[i].volume]

\* The latest vwap.  tp = (high + low + close) / 3; the numerator is the running
\* sum of tp * volume, the denominator the running volume with 0 replaced by
\* NaN, forward-filled, and 1 where nothing precedes (volumes are >= 0, so a
\* zero running volume has only zeros before it).
compute_vwap(b) ==
    LET tpv    == [i \in 1..Len(b) |-> (b[i].high + b[i].low + b[i].close) * b[i].volume]
        cumvol == SumSeq(Volumes(b))
    IN  Rat(SumSeq(tpv), 3 * (IF cumvol = 0 THEN 1 ELSE cumvol))

\* rolling(20, min_periods=1).mean() on the latest bar.
vol_avg_20(b) ==
    LET w == LastN(Volumes(b), VolWindow)
    IN  Rat(SumSeq(w), Len(w))

\* Lines 168-172: fewer than 20 bars, every indicator column is NaN.
nan_indicators(b) ==
    [bars |-> b, ema20 |-> NaN, ema50 |-> NaN, rsi |-> NaN, macd |-> NaN,
     macd_hist |-> NaN, bb_high |-> NaN, bb_low |-> NaN, atr |-> NaN,
     adx |-> NaN, obv |-> Repeat(NaN, Len(b)), roc |-> NaN, stoch_rsi |-> NaN,
     vwap |-> RatNaN, vol_avg_20 |-> RatNaN]

\* Lines 174-200: the columns after the try block.  A library call that raises
\* leaves its own and every later column NaN; compute_vwap and the rolling
\* volume mean come last.
raw_indicators(b, l) ==
    LET failed(c) == l.failAt # 0 /\ StepOf[c] >= l.failAt
        col(c)    == IF failed(c) THEN NaN ELSE l.vals[c]
        n         == Len(b)
    IN  [bars |-> b,
         ema20 |-> col("ema20"), ema50 |-> col("ema50"), rsi |-> col("rsi"),
         macd |-> col("macd"), macd_hist |-> col("macd_hist"),
         bb_high |-> col("bb_high"), bb_low |-> col("bb_low"),
         atr |-> col("atr"), adx |-> col("adx"),
         obv |-> IF failed("obv") THEN Repeat(NaN, n)
                 ELSE Append(Repeat(l.vals.obv_prev, n - 1), l.vals.obv),
         roc |-> col("roc"),
         stoch_rsi |-> IF failed("stoch_rsi") \/ l.stochFail THEN NaN
                       ELSE l.vals.stoch_rsi,
         vwap |-> IF l.failAt # 0 THEN RatNaN ELSE compute_vwap(b),
         vol_avg_20 |-> IF l.failAt # 0 THEN RatNaN ELSE vol_avg_20(b)]

\* fillna(method='ffill') on a column.
RECURSIVE FFill(_)
FFill(c) ==
    IF c = <<>> THEN <<>>
    ELSE LET init == FFill(SubSeq(c, 1, Len(c) - 1))
             last == c[Len(c)]
         IN  Append(init, IF IsNaN(last) /\ init # <<>> THEN init[Len(init)] ELSE last)

\* Lines 202-203: forward-fill, then 0 for what is still NaN.  The library
\* columns are NaN on every bar or on none, so only the OBV column, which
\* score_stock reads whole, is kept as a column.
fillna(d) ==
    LET z(x) == IF IsNaN(x) THEN 0 ELSE x
        q(r) == IF RatIsNaN(r) THEN RatZero ELSE r
        o    == FFill(d.obv)
    IN  [bars |-> d.bars,
         ema20 |-> z(d.ema20), ema50 |-> z(d.ema50), rsi |-> z(d.rsi),
         macd |-> z(d.macd), macd_hist |-> z(d.macd_hist),
         bb_high |-> z(d.bb_high), bb_low |-> z(d.bb_low),
         atr |-> z(d.atr), adx |-> z(d.adx),
         obv |-> [i \in 1..Len(o) |-> z(o[i])],
         roc |-> z(d.roc), stoch_rsi |-> z(d.stoch_rsi),
         vwap |-> q(d.vwap), vol_avg_20 |-> q(d.vol_avg_20)]

\* Mutant: the short frame falls through to the final fillna instead of returning.
calculate_indicators_fallthrough(b, l) ==
    IF Len(b) < MinBars THEN fillna(nan_indicators(b)) ELSE fillna(raw_indicators(b, l))

calculate_indicators(b, l) ==
    IF Len(b) < MinBars THEN nan_indicators(b) ELSE fillna(raw_indicators(b, l))

---------------------------------------------------------------------------
\* score_stock (utils.py 207-285).  d is a frame of at least one bar.

latest_close(d)  == d.bars[Len(d.bars)].close
latest_volume(d) == d.bars[Len(d.bars)].volume

\* `x or 0`: 0 and NaN are themselves (NaN is truthy).
OrZero(x) == x
\* `x or np.nan`: 0 becomes NaN.
OrNaN(x) == IF x = 0 THEN NaN ELSE x

\* Lines 216-217.
ema_pts(d) == IF GT(d.ema20, d.ema50) THEN 20 ELSE 0

\* Lines 218-219.
macd_pts(d) == IF GT(d.macd_hist, 0) THEN 10 ELSE 0

\* Lines 215-220.
trend_pts(d) == ema_pts(d) + macd_pts(d)

\* Lines 229-234.
rsi_pts(d) ==
    LET rsi == OrZero(d.rsi)
    IN  IF LE(30, rsi) /\ LE(rsi, 60) THEN 12
        ELSE IF LT(rsi, 30) THEN 8
        ELSE IF GT(rsi, 60) /\ LT(rsi, 75) THEN 6
        ELSE 0

\* Lines 235-236.
roc_pts(d) ==
    LET roc == OrZero(d.roc)
    IN  IF ~IsNaN(roc) /\ roc > 0 THEN 5 ELSE 0

\* Lines 237-238: stoch_rsi < 0.5, in tenths.
stoch_pts(d) ==
    LET stoch == OrNaN(d.stoch_rsi)
    IN  IF ~IsNaN(stoch) /\ stoch < 5 THEN 3 ELSE 0

\* Lines 225-239.
mom_pts(d) == rsi_pts(d) + roc_pts(d) + stoch_pts(d)

\* Lines 244-249.
vol_pts(d) ==
    LET v == ToRat(latest_volume(d))
    IN  IF RatGT(v, RatMul(Rat(15, 10), d.vol_avg_20)) THEN 15
        ELSE IF RatGT(v, RatMul(Rat(11, 10), d.vol_avg_20)) THEN 8
        ELSE 0

\* Lines 254-255.
vwap_pts(d) == IF RatGT(ToRat(latest_close(d)), d.vwap) THEN 10 ELSE 0

\* Mutant: the ADX thresholds taken inclusively.
adx_pts_inclusive(d) == IF GE(d.adx, 25) THEN 10 ELSE IF GE(d.adx, 18) THEN 5 ELSE 0

\* Lines 260-263.
adx_pts(d) == IF GT(d.adx, 25) THEN 10 ELSE IF GT(d.adx, 18) THEN 5 ELSE 0

\* obv.rolling(20).mean().iloc[-1]: NaN with fewer than 20 values or a NaN among them.
obv_rolling_mean(obv) ==
    LET w == LastN(obv, ObvWindow)
    IN  IF Len(obv) < ObvWindow \/ \E i \in 1..Len(w) : IsNaN(w[i]) THEN RatNaN
        ELSE Rat(SumSeq(w), ObvWindow)

\* Lines 268-271.
obv_pts(d) ==
    IF Len(d.obv) >= ObvMinLen /\ RatGT(ToRat(d.obv[Len(d.obv)]), obv_rolling_mean(d.obv))
    THEN 5 ELSE 0

\* Line 276: (atr / close) if close and atr else 0.
atr_rel(d) ==
    IF latest_close(d) # 0 /\ d.atr # 0
    THEN (IF IsNaN(d.atr) THEN RatNaN ELSE Rat(d.atr, latest_close(d)))
    ELSE RatZero

\* Lines 277-280.
atr_pts(d) ==
    IF RatLT(atr_rel(d), Rat(1, 100)) THEN 5
    ELSE IF RatLT(atr_rel(d), Rat(2, 100)) THEN 3
    ELSE 0

\* Mutant: the short frame answered with no score instead of 0.
score_stock_none(d) ==
    IF Len(d.bars) < MinBars THEN NaN
    ELSE Max2(0, Min2(100, trend_pts(d) + mom_pts(d) + vol_pts(d) + vwap_pts(d)
                            + adx_pts(d) + obv_pts(d) + atr_pts(d)))

score_stock(d) ==
    IF Len(d.bars) < MinBars THEN 0
    ELSE Max2(0, Min2(100, trend_pts(d) + mom_pts(d) + vol_pts(d) + vwap_pts(d)
                            + adx_pts(d) + obv_pts(d) + atr_pts(d)))

---------------------------------------------------------------------------
\* classify_signal (utils.py 287-304).

\* Mutant: the score thresholds tested before the overrides.
classify_signal_score_first(s, d) ==
    IF s >= 70 THEN "STRONG BUY"
    ELSE IF s >= 55 THEN "BUY"
    ELSE IF ~IsNaN(d.bb_low) /\ latest_close(d) < d.bb_low THEN "STRONG SELL"
    ELSE IF ~IsNaN(d.rsi) /\ d.rsi > 85 THEN "STRONG SELL"
    ELSE IF s >= 40 THEN "HOLD"
    ELSE "SELL"

classify_signal(s, d) ==
    IF ~IsNaN(d.bb_low) /\ latest_close(d) < d.bb_low THEN "STRONG SELL"
    ELSE IF ~IsNaN(d.rsi) /\ d.rsi > 85 THEN "STRONG SELL"
    ELSE IF s >= 70 THEN "STRONG BUY"
    ELSE IF s >= 55 THEN "BUY"
    ELSE IF s >= 40 THEN "HOLD"
    ELSE "SELL"

---------------------------------------------------------------------------
\* compute_future_potential (utils.py 307-319).

\* df['close'].pct_change().dropna(): close[i] / close[i-1] - 1 for every bar
\* after the first, NaN (0/0) dropped, inf (x/0) kept.
pct_changes(c) ==
    LET all == [i \in 1..(Len(c) - 1) |-> RatAdd(Rat(c[i + 1], c[i]), Rat(-1, 1))]
    IN  SelectSeq(all, LAMBDA r : ~RatIsNaN(r))

RECURSIVE RatSum(_)
RatSum(s) == IF s = <<>> THEN RatZero ELSE RatAdd(Head(s), RatSum(Tail(s)))

\* Mutant: the projection compounds.
RECURSIVE cum_compound(_, _)
cum_compound(avg, i) ==
    IF i = 0 THEN RatZero
    ELSE RatAdd(RatMul(RatAdd(Rat(1, 1), cum_compound(avg, i - 1)),
                       RatAdd(Rat(1, 1), avg)), Rat(-1, 1))

\* Lines 314-318: cum += avg, i times.
RECURSIVE cum_after(_, _)
cum_after(avg, i) == IF i = 0 THEN RatZero ELSE RatAdd(cum_after(avg, i - 1), avg)

\* raised: line 308 reads close.iloc[-1] before the length test, an IndexError
\* on a frame without rows.
compute_future_potential(d, days) ==
    IF Len(d.bars) = 0 THEN [raised |-> TRUE, map |-> <<>>]
    ELSE IF Len(d.bars) < 2 THEN [raised |-> FALSE, map |-> [i \in 1..days |-> RatZero]]
    ELSE LET changes == pct_changes(Closes(d.bars))
             avg     == IF changes # <<>> THEN RatDiv(RatSum(changes), Len(changes))
                        ELSE RatZero
         IN  [raised |-> FALSE,
              map |-> [i \in 1..days |-> RatScale(cum_after(avg, i), 100)]]

\* fetch_and_analyze 349-353.
trend_potential(d) ==
    LET c == Closes(d.bars)
        n == Len(c)
    IN  IF n > trend_minutes
        THEN LET past_price == c[n - trend_minutes + 1]
             IN  IF past_price # 0 THEN Rat((c[n] - past_price) * 100, past_price)
                 ELSE RatZero
        ELSE RatZero

---------------------------------------------------------------------------
\* fetch_and_analyze (utils.py 322-367), from the fetched frame on.

NoDf     == nan_indicators(<<>>)
NoFuture == [raised |-> FALSE, map |-> <<>>]

Days == (1..MaxDays) \cup {forecast_days}

NotifyIdle ==
    /\ npc = "idle" /\ bot_token = "" /\ chat_ids = <<>> /\ nIdx = 0
    /\ sendResults = <<>> /\ requests = <<>> /\ httpLog = <<>>

MainIdle ==
    /\ mpc = "idle" /\ outcome = <<>> /\ sIdx = 0 /\ visited = <<>>
    /\ all_data = {} /\ forecast_data = {}
    /\ results = <<>> /\ df_res = <<>> /\ top_10 = <<>> /\ portfolio = <<>>
    /\ pIdx = 0 /\ alerts = <<>> /\ sent = <<>>

PipeIdle ==
    /\ pc = "idle" /\ bars = <<>> /\ lib = NoLib /\ df = NoDf /\ score = NaN
    /\ signal = "" /\ future_potential = RatNaN /\ daysArg = 0 /\ future = NoFuture

NoFile == [exists |-> FALSE, ids |-> <<>>]

ChatsIdle ==
    /\ apc = "idle" /\ TELEGRAM_BOT_TOKEN = "" /\ chat_file = NoFile
    /\ aa_chat_ids = <<>> /\ new_ids = <<>> /\ feed = <<>> /\ returned = <<>>
    /\ processed = {} /\ everKnown = {} /\ calls = 0

NoFrame == [none |-> TRUE, rows |-> <<>>]

FetchIdle ==
    /\ fpc = "idle" /\ max_retries = 0 /\ attempt = 0 /\ attemptLog = <<>>
    /\ raw = <<>> /\ fetched = NoFrame /\ fa_return = ""

BookIdle == portfolio_file = <<>> /\ sidebar = ""

ExtIdle == ChatsIdle /\ FetchIdle /\ BookIdle

Init ==
    /\ pc = "start"
    /\ bars \in BarSeries
    /\ lib = NoLib
    /\ df = NoDf
    /\ score = NaN
    /\ signal = ""
    /\ future_potential = RatNaN
    /\ daysArg = 0
    /\ future = NoFuture
    /\ NotifyIdle
    /\ MainIdle
    /\ ExtIdle

\* Lines 324-326: no frame, or an empty one: "No data", return None.
NoData ==
    /\ pc = "start"
    /\ bars = <<>>
    /\ pc' = "nodata"
    /\ UNCHANGED <<bars, lib, df, score, signal, future_potential, daysArg, future>>
    /\ UNCHANGED <<notifyVars, mainVars, extVars>>

\* Line 328.  The library is called only on a frame of at least 20 bars.
CalculateIndicators ==
    /\ pc = "start"
    /\ bars # <<>>
    /\ \E l \in (IF Len(bars) < MinBars THEN {NoLib} ELSE LibOutcomes) :
          /\ lib' = l
          /\ df' = calculate_indicators(bars, l)
    /\ pc' = "indicators"
    /\ UNCHANGED <<bars, score, signal, future_potential, daysArg, future>>
    /\ UNCHANGED <<notifyVars, mainVars, extVars>>

\* Line 346.
ScoreStock ==
    /\ pc = "indicators"
    /\ score' = score_stock(df)
    /\ pc' = "scored"
    /\ UNCHANGED <<bars, lib, df, signal, future_potential, daysArg, future>>
    /\ UNCHANGED <<notifyVars, mainVars, extVars>>

\* Line 347.
ClassifySignal ==
    /\ pc = "scored"
    /\ signal' = classify_signal(score, df)
    /\ pc' = "classified"
    /\ UNCHANGED <<bars, lib, df, score, future_potential, daysArg, future>>
    /\ UNCHANGED <<notifyVars, mainVars, extVars>>

\* Lines 349-353.
TrendPotential ==
    /\ pc = "classified"
    /\ future_potential' = trend_potential(df)
    /\ pc' = "trended"
    /\ UNCHANGED <<bars, lib, df, score, signal, daysArg, future>>
    /\ UNCHANGED <<notifyVars, mainVars, extVars>>

\* Lines 355-367: the projection, then the result is returned.
ComputeFuturePotential ==
    /\ pc = "trended"
    /\ \E n \in Days :
          /\ daysArg' = n
          /\ future' = compute_future_potential(df, n)
          /\ pc' = IF future'.raised THEN "raised" ELSE "returned"
    /\ UNCHANGED <<bars, lib, df, score, signal, future_potential>>
    /\ UNCHANGED <<notifyVars, mainVars, extVars>>

Next ==
    \/ NoData
    \/ CalculateIndicators
    \/ ScoreStock
    \/ ClassifySignal
    \/ TrendPotential
    \/ ComputeFuturePotential

Spec == Init /\ [][Next]_vars

---------------------------------------------------------------------------
\* Claims about the scoring pipeline, checked under Spec.

Scored     == pc \in {"scored", "classified", "trended", "returned", "raised"}
Classified == pc \in {"classified", "trended", "returned", "raised"}
Signals    == {"STRONG BUY", "BUY", "HOLD", "SELL", "STRONG SELL"}

AllNaN(d) ==
    /\ \A c \in IntCols : d[c] = NaN
    /\ \A i \in 1..Len(d.obv) : d.obv[i] = NaN
    /\ d.vwap = RatNaN
    /\ d.vol_avg_20 = RatNaN

\* C1: whatever the series (zero volume, zero close, constant close, undefined
\* indicators, any length), the value score_stock returns is an integer of 0..100.
C1_ScoreInRange == Scored => score \in 0..100

C1_Witness ==
    /\ pc = "scored" /\ Len(bars) >= MinBars
    /\ lib.failAt # 0 /\ latest_close(df) = 0 /\ score \in 1..100

\* C2: on a series of fewer than 20 bars calculate_indicators leaves every
\* indicator column NaN (not 0) and score_stock returns exactly 0.
C2_ShortSeriesUndefined ==
    (pc \notin {"start", "nodata"} /\ Len(bars) < MinBars)
        => /\ AllNaN(df)
           /\ df.bars = bars
           /\ Scored => score = 0

C2_Witness ==
    /\ pc = "scored" /\ Len(bars) = MinBars - 1 /\ AllNaN(df) /\ score = 0

\* C3: the signal is STRONG SELL when close < lower Bollinger band or RSI > 85,
\* whatever the score; otherwise STRONG BUY from 70, BUY from 55, HOLD from 40,
\* else SELL; always one of the five values.
C3_Override ==
    \/ (df.bb_low # NaN /\ latest_close(df) < df.bb_low)
    \/ (df.rsi # NaN /\ df.rsi > 85)

C3_SignalTable ==
    Classified =>
        /\ signal \in Signals
        /\ C3_Override => signal = "STRONG SELL"
        /\ ~C3_Override =>
              /\ score >= 70 => signal = "STRONG BUY"
              /\ (55 <= score /\ score < 70) => signal = "BUY"
              /\ (40 <= score /\ score < 55) => signal = "HOLD"
              /\ score < 40 => signal = "SELL"

C3_Witness ==
    /\ Classified /\ score >= 70 /\ latest_close(df) < df.bb_low
    /\ signal = "STRONG SELL"

\* The rows of the point table on a frame whose latest indicators are defined.
C4_AllDefined ==
    /\ Len(bars) >= MinBars
    /\ lib.called /\ lib.failAt = 0 /\ ~lib.stochFail
    /\ latest_close(df) # 0

C4_Pick(cond, pts) == IF cond THEN pts ELSE 0

C4_ObvAboveMean ==
    LET w == LastN(df.obv, ObvWindow)
    IN  ObvWindow * df.obv[Len(df.obv)] > SumSeq(w)

C4_RowsWithoutObv ==
      C4_Pick(df.ema20 > df.ema50, 20)
    + C4_Pick(df.macd_hist > 0, 10)
    + (IF 30 <= df.rsi /\ df.rsi <= 60 THEN 12
       ELSE IF df.rsi < 30 THEN 8
       ELSE IF 60 < df.rsi /\ df.rsi < 75 THEN 6 ELSE 0)
    + C4_Pick(df.roc > 0, 5)
    + (IF RatGT(ToRat(2 * latest_volume(df)), RatScale(df.vol_avg_20, 3)) THEN 15
       ELSE IF RatGT(ToRat(10 * latest_volume(df)), RatScale(df.vol_avg_20, 11)) THEN 8
       ELSE 0)
    + C4_Pick(RatGT(ToRat(latest_close(df)), df.vwap), 10)
    + (IF df.adx > 25 THEN 10 ELSE IF df.adx > 18 THEN 5 ELSE 0)
    + (IF 100 * df.atr < latest_close(df) THEN 5
       ELSE IF 100 * df.atr < 2 * latest_close(df) THEN 3 ELSE 0)

C4_Clamp(x) == IF x < 0 THEN 0 ELSE IF x > 100 THEN 100 ELSE x

\* C4 as stated: the score is the sum of the rows of the table that hold, with
\* no other contribution, clamped to [0,100].
C4_TableOnly ==
    (Scored /\ C4_AllDefined)
        => score = C4_Clamp(C4_RowsWithoutObv + C4_Pick(C4_ObvAboveMean, 5))

\* C4 amended: the OBV row counts only on a series of at least 21 bars, and a
\* stochastic RSI that is non-zero and below 0.5 adds 3 more points.
C4_TableAmended ==
    (Scored /\ C4_AllDefined)
        => score = C4_Clamp(C4_RowsWithoutObv
                            + C4_Pick(Len(bars) >= 21 /\ C4_ObvAboveMean, 5)
                            + C4_Pick(df.stoch_rsi # 0 /\ df.stoch_rsi < 5, 3))

C4_Witness ==
    /\ pc = "scored" /\ C4_AllDefined /\ Len(bars) >= 21
    /\ C4_ObvAboveMean /\ df.stoch_rsi \in 1..4 /\ df.adx = 25
    /\ score = 85

\* What the frame held before the final fillna.
C5_Raw == raw_indicators(bars, lib)

\* C5 as stated: on a series of at least 20 bars an indicator that is undefined
\* on the latest bar adds no points for its row: an undefined RSI earns none of
\* the RSI points, an undefined ATR, or ATR/close with close = 0, none of the
\* ATR points, and likewise for the other rows.
C5_UndefinedAddsNothing ==
    (Scored /\ Len(bars) >= MinBars /\ lib.called)
        => /\ (IsNaN(C5_Raw.ema20) \/ IsNaN(C5_Raw.ema50)) => ema_pts(df) = 0
           /\ IsNaN(C5_Raw.macd_hist) => macd_pts(df) = 0
           /\ IsNaN(C5_Raw.rsi) => rsi_pts(df) = 0
           /\ IsNaN(C5_Raw.roc) => roc_pts(df) = 0
           /\ RatIsNaN(C5_Raw.vol_avg_20) => vol_pts(df) = 0
           /\ RatIsNaN(C5_Raw.vwap) => vwap_pts(df) = 0
           /\ IsNaN(C5_Raw.adx) => adx_pts(df) = 0
           /\ IsNaN(C5_Raw.obv[Len(bars)]) => obv_pts(df) = 0
           /\ (IsNaN(C5_Raw.atr) \/ latest_close(df) = 0) => atr_pts(df) = 0

\* The arithmetic mean of the bar-to-bar percent changes of close (as a
\* fraction), 0/0 changes left out; 0 when there is none.
C10_Changes ==
    LET c == Closes(bars)
    IN  SelectSeq([i \in 1..(Len(c) - 1) |-> Rat(c[i + 1] - c[i], c[i])],
                  LAMBDA r : ~RatIsNaN(r))

C10_Mean ==
    IF C10_Changes = <<>> THEN RatZero
    ELSE RatDiv(RatSum(C10_Changes), Len(C10_Changes))

\* C10: compute_future_potential(df, N) returns a map with keys exactly 1..N
\* whose value at day d is d times the mean percent change (linear, no
\* compounding), and all zeros for a series of fewer than 2 bars.
C10_LinearProjection ==
    pc = "returned" =>
        /\ ~future.raised
        /\ DOMAIN future.map = 1..daysArg
        /\ \A d \in 1..daysArg :
              /\ future.map[d] = RatScale(C10_Mean, 100 * d)
              /\ future.map[d] = RatScale(future.map[1], d)
        /\ Len(bars) < 2 => \A d \in 1..daysArg : future.map[d] = RatZero

C10_Witness ==
    /\ pc = "returned" /\ daysArg = forecast_days /\ Len(bars) >= MinBars
    /\ future.map[1] \notin {RatZero, RatNaN}
    /\ ~RatIsInf(future.map[1])
    /\ future.map[forecast_days] = RatScale(future.map[1], forecast_days)

---------------------------------------------------------------------------
\* send_telegram_message (utils.py 64-94).  The destinations are the strings
\* load_chat_ids and auto_add_new_chats return (already str, without repeats),
\* so the str() of line 72 leaves them as they are.

ChatIdPool == {"1438699528", "5719791363", "777000001", "777000002"}

Range(s) == {s[i] : i \in 1..Len(s)}

ChatLists ==
    {l \in SeqsUpTo(ChatIdPool, MaxChats) : Cardinality(Range(l)) = Len(l)}

\* What one requests.post can do: raise (timeout, connection error), or answer
\* with a status and a body that is JSON with ok true, JSON with ok false, or
\* not JSON.
HttpOutcomes ==
    {[raised |-> TRUE, status |-> 0, body |-> "none"]}
    \cup {[raised |-> FALSE, status |-> st, body |-> b] :
             st \in {200, 403}, b \in {"ok_true", "ok_false", "not_json"}}

\* Mutant: the ok flag of the body is not looked at.
send_result_status_only(o) ==
    IF o.raised THEN [ok |-> FALSE, detail |-> "exception"]
    ELSE IF o.status # 200 THEN [ok |-> FALSE, detail |-> "status"]
    ELSE [ok |-> TRUE, detail |-> "none"]

\* Lines 80-93: the entry recorded for one destination.
send_result(o) ==
    IF o.raised THEN [ok |-> FALSE, detail |-> "exception"]
    ELSE LET resp_ok == IF o.body = "not_json" THEN FALSE ELSE o.body = "ok_true"
         IN  IF o.status # 200 \/ ~resp_ok THEN [ok |-> FALSE, detail |-> "status"]
             ELSE [ok |-> TRUE, detail |-> "none"]

\* results[chat_id] = entry
DictPut(dct, k, v) == [x \in DOMAIN dct \cup {k} |-> IF x = k THEN v ELSE dct[x]]

InitNotify ==
    /\ npc = "start"
    /\ bot_token \in {"", "TOKEN"}
    /\ chat_ids \in ChatLists
    /\ nIdx = 0
    /\ sendResults = <<>>
    /\ requests = <<>>
    /\ httpLog = <<>>
    /\ PipeIdle
    /\ MainIdle
    /\ ExtIdle

\* Lines 73-75: nothing configured, the empty map is returned.
SendNotConfigured ==
    /\ npc = "start"
    /\ (bot_token = "" \/ chat_ids = <<>>)
    /\ npc' = "done"
    /\ UNCHANGED <<bot_token, chat_ids, nIdx, sendResults, requests, httpLog>>
    /\ UNCHANGED <<pipeVars, mainVars, extVars>>

\* Lines 77-78: the loop is entered.
SendBegin ==
    /\ npc = "start"
    /\ bot_token # "" /\ chat_ids # <<>>
    /\ npc' = "loop"
    /\ nIdx' = 1
    /\ UNCHANGED <<bot_token, chat_ids, sendResults, requests, httpLog>>
    /\ UNCHANGED <<pipeVars, mainVars, extVars>>

\* Lines 78-93: one destination.
SendOne ==
    /\ npc = "loop"
    /\ nIdx <= Len(chat_ids)
    /\ \E o \in HttpOutcomes :
          /\ requests' = Append(requests, chat_ids[nIdx])
          /\ httpLog' = Append(httpLog, o)
          /\ sendResults' = DictPut(sendResults, chat_ids[nIdx], send_result(o))
    /\ nIdx' = nIdx + 1
    /\ UNCHANGED <<npc, bot_token, chat_ids>>
    /\ UNCHANGED <<pipeVars, mainVars, extVars>>

\* Line 94.
SendReturn ==
    /\ npc = "loop"
    /\ nIdx > Len(chat_ids)
    /\ npc' = "done"
    /\ UNCHANGED <<bot_token, chat_ids, nIdx, sendResults, requests, httpLog>>
    /\ UNCHANGED <<pipeVars, mainVars, extVars>>

NextNotify == SendNotConfigured \/ SendBegin \/ SendOne \/ SendReturn

SpecNotify == InitNotify /\ [][NextNotify]_vars

\* C6: with a non-empty token and n distinct destinations there is exactly one
\* request per destination, in list order, never a second one; the map returned
\* has exactly n entries, ok exactly where the call answered 200 with ok true,
\* and a failure with its detail everywhere else, whatever happened to the
\* destinations before.
C6_Delivered(o) == ~o.raised /\ o.status = 200 /\ o.body = "ok_true"

C6_OnePerDestination ==
    /\ npc = "loop" =>
          /\ requests = SubSeq(chat_ids, 1, nIdx - 1)
          /\ Len(httpLog) = Len(requests)
    /\ (npc = "done" /\ bot_token # "") =>
          /\ requests = chat_ids
          /\ Len(httpLog) = Len(chat_ids)
          /\ DOMAIN sendResults = Range(chat_ids)
          /\ Cardinality(DOMAIN sendResults) = Len(chat_ids)
          /\ \A i \in 1..Len(chat_ids) :
                /\ sendResults[chat_ids[i]].ok <=> C6_Delivered(httpLog[i])
                /\ ~sendResults[chat_ids[i]].ok =>
                      sendResults[chat_ids[i]].detail \in {"status", "exception"}

C6_Witness ==
    /\ npc = "done" /\ bot_token # "" /\ Len(chat_ids) = 3 /\ Len(httpLog) = 3
    /\ httpLog[2].raised
    /\ sendResults[chat_ids[1]].ok /\ sendResults[chat_ids[3]].ok
    /\ sendResults[chat_ids[2]] = [ok |-> FALSE, detail |-> "exception"]
    /\ Cardinality(DOMAIN sendResults) = 3

---------------------------------------------------------------------------
\* One refresh cycle of main.py, lines 140-265: the scan loop, the ranking, the
\* 10 o'clock message, the stop-loss pass.  The universe is the first
\* MaxSymbols symbols of config.NIFTY50 (with ".NS", line 144).

NIFTY50 ==
    <<"ADANIENT.NS", "ADANIPORTS.NS", "APOLLOHOSP.NS", "ASIANPAINT.NS",
      "AXISBANK.NS", "BAJAJ-AUTO.NS">>

symbols == SubSeq(NIFTY50, 1, MaxSymbols)

\* What fetch_and_analyze may return for a symbol: a score, with a signal, a
\* trend (future_potential) and a current price.
InfoShapes ==
    { [signal |-> "BUY",  future_potential |-> 0, current_price |-> 100],
      [signal |-> "BUY",  future_potential |-> 0, current_price |-> 98],
      [signal |-> "SELL", future_potential |-> 1, current_price |-> 97],
      [signal |-> "SELL", future_potential |-> 0, current_price |-> 99] }

Infos ==
    {[score |-> sc, signal |-> i.signal, future_potential |-> i.future_potential,
      current_price |-> i.current_price] : sc \in {50, 90}, i \in InfoShapes}

\* portfolio.json as loaded at line 38: an ordered dict, here a sequence of
\* entries with distinct symbols.  Entry prices are positive.
PortfolioEntry(sym) == [symbol |-> sym, entry_price |-> 100, quantity |-> 1]

Portfolios ==
    { <<>>,
      <<PortfolioEntry(NIFTY50[1])>>,
      <<PortfolioEntry(NIFTY50[2]), PortfolioEntry(NIFTY50[1])>> }

InPortfolio(p, sym) == \E i \in 1..Len(p) : p[i].symbol = sym
EntryOf(p, sym)     == p[CHOOSE i \in 1..Len(p) : p[i].symbol = sym]

\* Lines 169-185: the row appended for a symbol.
result_row(sym, info, p) ==
    LET in_port == InPortfolio(p, sym)
        entry   == IF in_port THEN EntryOf(p, sym).entry_price ELSE NaN
        qty     == IF in_port THEN EntryOf(p, sym).quantity ELSE NaN
    IN  [symbol |-> sym, score |-> info.score, signal |-> info.signal,
         price |-> info.current_price, future_potential |-> info.future_potential,
         in_portfolio |-> in_port, entry_price |-> entry, qty |-> qty,
         pl |-> IF in_port /\ entry # 0 THEN (info.current_price - entry) * qty ELSE NaN]

InitMain ==
    /\ mpc = "scan"
    /\ portfolio \in Portfolios
    /\ outcome = <<>>
    /\ sIdx = 0
    /\ visited = <<>>
    /\ all_data = {}
    /\ forecast_data = {}
    /\ results = <<>>
    /\ df_res = <<>>
    /\ top_10 = <<>>
    /\ pIdx = 0
    /\ alerts = <<>>
    /\ sent = <<>>
    /\ PipeIdle
    /\ NotifyIdle
    /\ ExtIdle

\* Lines 152-158: fetch_and_analyze returned None: continue.
ScanNoData ==
    /\ mpc = "scan" /\ sIdx < Len(symbols)
    /\ sIdx' = sIdx + 1
    /\ visited' = Append(visited, symbols[sIdx + 1])
    /\ outcome' = Append(outcome, "nodata")
    /\ UNCHANGED <<mpc, all_data, forecast_data, results, df_res, top_10, portfolio,
                   pIdx, alerts, sent>>
    /\ UNCHANGED <<pipeVars, notifyVars, extVars>>

\* Mutant: no except clause, the exception ends the script.
ScanRaise_abort ==
    /\ mpc = "scan" /\ sIdx < Len(symbols)
    /\ sIdx' = sIdx + 1
    /\ visited' = Append(visited, symbols[sIdx + 1])
    /\ outcome' = Append(outcome, "raise")
    /\ mpc' = "error"
    /\ UNCHANGED <<all_data, forecast_data, results, df_res, top_10, portfolio, pIdx,
                   alerts, sent>>
    /\ UNCHANGED <<pipeVars, notifyVars, extVars>>

\* Lines 155-187: fetch_and_analyze, or the processing after it, raised: the
\* except clause prints and the loop goes on.  stored: how far the body got
\* (nothing; all_data set at 162 and to_csv raised; forecast_data set at 166).
ScanRaise ==
    /\ mpc = "scan" /\ sIdx < Len(symbols)
    /\ sIdx' = sIdx + 1
    /\ visited' = Append(visited, symbols[sIdx + 1])
    /\ outcome' = Append(outcome, "raise")
    /\ \E stored \in 0..2 :
          /\ all_data' = IF stored >= 1 THEN all_data \cup {symbols[sIdx + 1]} ELSE all_data
          /\ forecast_data' = IF stored >= 2 THEN forecast_data \cup {symbols[sIdx + 1]}
                              ELSE forecast_data
    /\ UNCHANGED <<mpc, results, df_res, top_10, portfolio, pIdx, alerts, sent>>
    /\ UNCHANGED <<pipeVars, notifyVars, extVars>>

\* Lines 155-185: a result, its row appended.
ScanOk ==
    /\ mpc = "scan" /\ sIdx < Len(symbols)
    /\ sIdx' = sIdx + 1
    /\ visited' = Append(visited, symbols[sIdx + 1])
    /\ outcome' = Append(outcome, "ok")
    /\ all_data' = all_data \cup {symbols[sIdx + 1]}
    /\ forecast_data' = forecast_data \cup {symbols[sIdx + 1]}
    /\ \E info \in Infos :
          results' = Append(results, result_row(symbols[sIdx + 1], info, portfolio))
    /\ UNCHANGED <<mpc, df_res, top_10, portfolio, pIdx, alerts, sent>>
    /\ UNCHANGED <<pipeVars, notifyVars, extVars>>

\* The loop of line 152 is over.
ScanEnd ==
    /\ mpc = "scan" /\ sIdx = Len(symbols)
    /\ mpc' = "rank"
    /\ UNCHANGED <<outcome, sIdx, visited, all_data, forecast_data, results, df_res,
                   top_10, portfolio, pIdx, alerts, sent>>
    /\ UNCHANGED <<pipeVars, notifyVars, extVars>>

\* sort_values("score", ascending=False) with the default kind, quicksort, which
\* pandas and numpy do not promise to be stable: any ordering of the rows by
\* non-increasing score.
SortedByScoreDesc(r) ==
    {q \in {[i \in 1..Len(r) |-> r[p[i]]] : p \in Permutations(1..Len(r))} :
        \A i \in 1..(Len(q) - 1) : q[i].score >= q[i + 1].score}

\* Line 190.  pd.DataFrame([]) has no column "score": sort_values raises
\* KeyError and the script ends there.
Rank ==
    /\ mpc = "rank"
    /\ IF results = <<>>
       THEN /\ mpc' = "error"
            /\ UNCHANGED df_res
       ELSE /\ df_res' \in SortedByScoreDesc(results)
            /\ mpc' = "top10"
    /\ UNCHANGED <<outcome, sIdx, visited, all_data, forecast_data, results, top_10,
                   portfolio, pIdx, alerts, sent>>
    /\ UNCHANGED <<pipeVars, notifyVars, extVars>>

head(r, k) == SubSeq(r, 1, Min2(k, Len(r)))

\* Lines 195-232: between 10:00 and 10:05 the top 10 go to the notifier; the
\* top-10 table, the forecast tables and the download buttons are drawn.
Top10 ==
    /\ mpc = "top10"
    /\ top_10' = head(df_res, TopK)
    /\ \E tenAM \in BOOLEAN :
          sent' = IF tenAM THEN Append(sent, [kind |-> "top10", symbol |-> ""]) ELSE sent
    /\ pIdx' = 1
    /\ mpc' = "stoploss"
    /\ UNCHANGED <<outcome, sIdx, visited, all_data, forecast_data, results, df_res,
                   portfolio, alerts>>
    /\ UNCHANGED <<pipeVars, notifyVars, extVars>>

RowsOf(r, sym) == SelectSeq(r, LAMBDA x : x.symbol = sym)

\* (current_price - entry_price) / entry_price * 100 <= -STOP_LOSS_PERCENT
stop_loss_hit(row, entry) ==
    ~RatGT(Rat((row.price - entry.entry_price) * 100, entry.entry_price),
           Rat(-STOP_LOSS_PERCENT, 1))

\* Lines 240-259: what the pass does for one portfolio symbol.
alert_for(row_set, entry) ==
    IF row_set = <<>> THEN "none"
    ELSE LET row == row_set[1]
         IN  IF row.future_potential > 0 /\ row.signal \in {"SELL", "STRONG SELL"}
             THEN "none"
             ELSE IF stop_loss_hit(row, entry) THEN "STOP-LOSS"
             ELSE IF row.signal \in {"STRONG SELL", "SELL"} THEN "SELL RECOMMEND"
             ELSE "none"

\* Lines 239-259: one portfolio symbol.
StopLossStep ==
    /\ mpc = "stoploss" /\ pIdx <= Len(portfolio)
    /\ LET entry == portfolio[pIdx]
           kind  == alert_for(RowsOf(df_res, entry.symbol), entry)
           msg   == [kind |-> kind, symbol |-> entry.symbol]
       IN  /\ alerts' = IF kind = "none" THEN alerts ELSE Append(alerts, msg)
           /\ sent' = IF kind = "none" THEN sent ELSE Append(sent, msg)
    /\ pIdx' = pIdx + 1
    /\ UNCHANGED <<mpc, outcome, sIdx, visited, all_data, forecast_data, results,
                   df_res, top_10, portfolio>>
    /\ UNCHANGED <<pipeVars, notifyVars, extVars>>

\* Lines 261-269: the alerts, or "No immediate sell alerts", are shown.
CycleEnd ==
    /\ mpc = "stoploss" /\ pIdx > Len(portfolio)
    /\ mpc' = "done"
    /\ UNCHANGED <<outcome, sIdx, visited, all_data, forecast_data, results, df_res,
                   top_10, portfolio, pIdx, alerts, sent>>
    /\ UNCHANGED <<pipeVars, notifyVars, extVars>>

NextMain ==
    \/ ScanNoData
    \/ ScanRaise
    \/ ScanOk
    \/ ScanEnd
    \/ Rank
    \/ Top10
    \/ StopLossStep
    \/ CycleEnd

SpecMain == InitMain /\ [][NextMain]_vars

---------------------------------------------------------------------------
\* Claims about the refresh cycle, checked under SpecMain.

\* The symbols, in universe order, whose visit ended with a row.
RECURSIVE C7_Succeeded(_)
C7_Succeeded(k) ==
    IF k = 0 THEN <<>>
    ELSE IF outcome[k] = "ok" THEN Append(C7_Succeeded(k - 1), symbols[k])
    ELSE C7_Succeeded(k - 1)

C7_ResultSymbols == [i \in 1..Len(results) |-> results[i].symbol]

\* C7: the scan loop visits every symbol once, in universe order, and reaches
\* the end of the universe: no data and exceptions skip the symbol without
\* stopping the loop, and the rows collected are exactly those of the symbols
\* that succeeded, one each, in universe order.
C7_ScanVisitsAll ==
    /\ mpc = "scan" =>
          /\ sIdx <= Len(symbols)
          /\ visited = SubSeq(symbols, 1, sIdx)
          /\ Len(outcome) = sIdx
          /\ C7_ResultSymbols = C7_Succeeded(sIdx)
    /\ mpc \notin {"scan", "idle"} =>
          /\ visited = symbols
          /\ Len(outcome) = Len(symbols)
          /\ C7_ResultSymbols = C7_Succeeded(Len(symbols))

C7_Witness ==
    /\ mpc = "rank" /\ visited = symbols
    /\ outcome = <<"nodata", "ok", "raise">>
    /\ C7_ResultSymbols = <<symbols[2]>>

\* C8 as stated: no data is never fatal: whatever symbols yield no data, all of
\* them included, the cycle goes on through the ranking, the top 10 and the
\* stop-loss pass without reaching an error state.
C8_NoDataNeverFatal == mpc # "error"

\* The stable descending sort of r: each row is inserted after the rows that
\* score at least as much.
RECURSIVE C9_InsertRow(_, _)
C9_InsertRow(sorted, x) ==
    IF sorted = <<>> THEN <<x>>
    ELSE IF Head(sorted).score >= x.score
         THEN <<Head(sorted)>> \o C9_InsertRow(Tail(sorted), x)
         ELSE <<x>> \o sorted

RECURSIVE C9_StableSort(_)
C9_StableSort(r) ==
    IF r = <<>> THEN <<>>
    ELSE C9_InsertRow(C9_StableSort(SubSeq(r, 1, Len(r) - 1)), r[Len(r)])

\* C9 as stated: for every result collection the ranking is the permutation with
\* non-increasing scores in which rows of equal score keep their input order,
\* and the top 10 are its first rows.
C9_StableRanking ==
    /\ mpc \in {"top10", "stoploss", "done"} => df_res = C9_StableSort(results)
    /\ mpc \in {"stoploss", "done"} => top_10 = head(C9_StableSort(results), TopK)

---------------------------------------------------------------------------
\* auto_add_new_chats (utils.py 33-62) with load_chat_ids (17-26) and
\* save_chat_ids (28-31), called once per run of main.py (line 110).

\* config.py 20.
TELEGRAM_CHAT_IDS == <<"1438699528", "5719791363">>

\* Chat ids as the update feed carries them: JSON integers.
FeedIds == {1438699528, 777000001, 777000002}

\* str(chat_id), line 53.
str(i) ==
    CASE i = 1438699528 -> "1438699528"
      [] i = 777000001  -> "777000001"
      [] i = 777000002  -> "777000002"

\* One update of the feed: a message (or edited_message) of a chat, an update
\* without a chat id (callback_query and the like, lines 48-52), or an item on
\* which lines 48-50 raise (e.g. a "message" that is not an object).
FeedItems ==
    {[kind |-> "message", id |-> i] : i \in FeedIds}
        \cup {[kind |-> "nochat", id |-> 0], [kind |-> "malformed", id |-> 0]}

Feeds == SeqsUpTo(FeedItems, MaxFeed)

\* list(dict.fromkeys(l)), line 24: first occurrences, in order.
RECURSIVE fromkeys(_)
fromkeys(l) ==
    IF l = <<>> THEN <<>>
    ELSE LET front == fromkeys(SubSeq(l, 1, Len(l) - 1))
             x     == l[Len(l)]
         IN  IF x \in Range(front) THEN front ELSE Append(front, x)

\* Lines 17-26.
load_chat_ids(file) ==
    IF file.exists THEN fromkeys(file.ids \o TELEGRAM_CHAT_IDS)
    ELSE TELEGRAM_CHAT_IDS

\* chat_ids.json at the start of a session: absent, or as an earlier session
\* saved it.
InitialFiles ==
    {NoFile, [exists |-> TRUE, ids |-> TELEGRAM_CHAT_IDS \o <<"777000001">>]}

InitChats ==
    /\ apc = "start"
    /\ TELEGRAM_BOT_TOKEN \in {"", "TOKEN"}
    /\ chat_file \in InitialFiles
    /\ aa_chat_ids = <<>>
    /\ new_ids = <<>>
    /\ feed = <<>>
    /\ returned = <<>>
    /\ processed = {}
    /\ everKnown = {}
    /\ calls = 0
    /\ PipeIdle
    /\ NotifyIdle
    /\ MainIdle
    /\ FetchIdle
    /\ BookIdle

\* Lines 38-40: no token, the loaded list is returned.
AddNoToken ==
    /\ apc = "start" /\ calls < MaxCalls
    /\ TELEGRAM_BOT_TOKEN = ""
    /\ returned' = load_chat_ids(chat_file)
    /\ everKnown' = everKnown \cup Range(returned)
    /\ processed' = {}
    /\ calls' = calls + 1
    /\ apc' = "returned"
    /\ UNCHANGED <<TELEGRAM_BOT_TOKEN, chat_file, aa_chat_ids, new_ids, feed>>
    /\ UNCHANGED <<pipeVars, notifyVars, mainVars, fetchVars, bookVars>>

\* Lines 41-45: the list is loaded and the feed requested; r["result"] is any
\* feed (line 46).
AddBegin ==
    /\ apc = "start" /\ calls < MaxCalls
    /\ TELEGRAM_BOT_TOKEN # ""
    /\ aa_chat_ids' = load_chat_ids(chat_file)
    /\ new_ids' = <<>>
    /\ feed' \in Feeds
    /\ everKnown' = everKnown \cup Range(returned)
    /\ processed' = {}
    /\ calls' = calls + 1
    /\ apc' = "loop"
    /\ UNCHANGED <<TELEGRAM_BOT_TOKEN, chat_file, returned>>
    /\ UNCHANGED <<pipeVars, notifyVars, mainVars, fetchVars, bookVars>>

\* Lines 44, 60-62: requests.get or .json() raised; the loaded list is returned.
AddRequestRaise ==
    /\ apc = "start" /\ calls < MaxCalls
    /\ TELEGRAM_BOT_TOKEN # ""
    /\ aa_chat_ids' = load_chat_ids(chat_file)
    /\ returned' = load_chat_ids(chat_file)
    /\ new_ids' = <<>>
    /\ everKnown' = everKnown \cup Range(returned)
    /\ processed' = {}
    /\ calls' = calls + 1
    /\ apc' = "returned"
    /\ UNCHANGED <<TELEGRAM_BOT_TOKEN, chat_file, feed>>
    /\ UNCHANGED <<pipeVars, notifyVars, mainVars, fetchVars, bookVars>>

\* Lines 46-56: one item of the feed.
AddItem ==
    /\ apc = "loop" /\ feed # <<>>
    /\ Head(feed).kind # "malformed"
    /\ LET item == Head(feed)
           chat_id == str(item.id)
       IN  IF item.kind = "nochat"
           THEN UNCHANGED <<aa_chat_ids, new_ids, processed>>
           ELSE /\ processed' = processed \cup {chat_id}
                /\ IF chat_id \notin Range(aa_chat_ids)
                   THEN /\ aa_chat_ids' = Append(aa_chat_ids, chat_id)
                        /\ new_ids' = Append(new_ids, chat_id)
                   ELSE UNCHANGED <<aa_chat_ids, new_ids>>
    /\ feed' = Tail(feed)
    /\ UNCHANGED <<apc, TELEGRAM_BOT_TOKEN, chat_file, returned, everKnown, calls>>
    /\ UNCHANGED <<pipeVars, notifyVars, mainVars, fetchVars, bookVars>>

\* Lines 48-50, 60-62: the item raises; the except clause ends the try block,
\* the list as grown so far is returned and nothing is saved.
AddItemRaise ==
    /\ apc = "loop" /\ feed # <<>>
    /\ Head(feed).kind = "malformed"
    /\ returned' = aa_chat_ids
    /\ feed' = <<>>
    /\ apc' = "returned"
    /\ UNCHANGED <<TELEGRAM_BOT_TOKEN, chat_file, aa_chat_ids, new_ids, processed,
                   everKnown, calls>>
    /\ UNCHANGED <<pipeVars, notifyVars, mainVars, fetchVars, bookVars>>

\* Lines 57-62: the end of the feed; with new ids the list is saved, and a
\* save that raises (open or json.dump) is caught like any other exception.
AddSaveReturn ==
    /\ apc = "loop" /\ feed = <<>>
    /\ \E save_ok \in BOOLEAN :
          chat_file' = IF new_ids # <<>> /\ save_ok
                       THEN [exists |-> TRUE, ids |-> aa_chat_ids]
                       ELSE chat_file
    /\ returned' = aa_chat_ids
    /\ apc' = "returned"
    /\ UNCHANGED <<TELEGRAM_BOT_TOKEN, aa_chat_ids, new_ids, feed, processed,
                   everKnown, calls>>
    /\ UNCHANGED <<pipeVars, notifyVars, mainVars, fetchVars, bookVars>>

\* main.py 110: the next run of the script calls again.
AddAgain ==
    /\ apc = "returned" /\ calls < MaxCalls
    /\ apc' = "start"
    /\ UNCHANGED <<TELEGRAM_BOT_TOKEN, chat_file, aa_chat_ids, new_ids, feed,
                   returned, processed, everKnown, calls>>
    /\ UNCHANGED <<pipeVars, notifyVars, mainVars, fetchVars, bookVars>>

NextChats ==
    \/ AddNoToken
    \/ AddBegin
    \/ AddRequestRaise
    \/ AddItem
    \/ AddItemRaise
    \/ AddSaveReturn
    \/ AddAgain

SpecChats == InitChats /\ [][NextChats]_vars

---------------------------------------------------------------------------
\* Claims about the destination list, checked under SpecChats.

C11_NoDuplicates(l) == \A i, j \in 1..Len(l) : l[i] = l[j] => i = j

\* C11 as stated: after any sequence of auto_add_new_chats calls, whatever the
\* feeds and whichever calls fail part-way, the list a call returns holds no
\* identifier twice, holds every sender identifier of the items the call
\* processed, and holds every identifier that an earlier call returned.
C11_KnownOnlyGrows ==
    apc = "returned" =>
        /\ C11_NoDuplicates(returned)
        /\ processed \subseteq Range(returned)
        /\ everKnown \subseteq Range(returned)

---------------------------------------------------------------------------
\* fetch_intraday_yfinance (utils.py 97-146) and the test fetch_and_analyze
\* makes on its result (lines 323-326).

\* A frame yf.download returns: rows [datetime, close] with distinct
\* timestamps in any order, the close possibly NaN.  The other columns play no
\* part in this function.
RawRows == {[datetime |-> t, close |-> c] : t \in 1..MaxRows, c \in {NaN, 100}}

RawFrames ==
    {f \in SeqsUpTo(RawRows, MaxRows) :
        /\ f # <<>>
        /\ \A i, j \in 1..Len(f) : f[i].datetime = f[j].datetime => i = j}

\* Line 140: sort_values("datetime").
RECURSIVE sort_by_datetime(_)
sort_by_datetime(f) ==
    IF f = <<>> THEN <<>>
    ELSE LET m == CHOOSE i \in 1..Len(f) :
                      \A j \in 1..Len(f) : f[i].datetime <= f[j].datetime
         IN  <<f[m]>> \o sort_by_datetime(SubSeq(f, 1, m - 1) \o SubSeq(f, m + 1, Len(f)))

\* Line 142: dropna(subset=['close']).
dropna_close(f) == SelectSeq(f, LAMBDA r : r.close # NaN)

\* Lines 116-143 on a non-empty download.
normalize(f) == dropna_close(sort_by_datetime(f))

InitFetch ==
    /\ fpc = "loop"
    /\ max_retries \in 0..MaxRetries
    /\ attempt = 0
    /\ attemptLog = <<>>
    /\ raw = <<>>
    /\ fetched = NoFrame
    /\ fa_return = ""
    /\ PipeIdle
    /\ NotifyIdle
    /\ MainIdle
    /\ ChatsIdle
    /\ BookIdle

\* Lines 105, 144-145: yf.download raises; the except clause prints and the
\* loop goes to the next attempt.
FetchAttemptRaise ==
    /\ fpc = "loop" /\ attempt < max_retries
    /\ attempt' = attempt + 1
    /\ attemptLog' = Append(attemptLog, "raise")
    /\ raw' = <<>>
    /\ UNCHANGED <<fpc, max_retries, fetched, fa_return>>
    /\ UNCHANGED <<pipeVars, notifyVars, mainVars, chatVars, bookVars>>

\* Mutant: an empty download ends the function with None at once.
FetchAttemptEmpty_giveup ==
    /\ fpc = "loop" /\ attempt < max_retries
    /\ attempt' = attempt + 1
    /\ attemptLog' = Append(attemptLog, "empty")
    /\ raw' = <<>>
    /\ fetched' = NoFrame
    /\ fpc' = "returned"
    /\ UNCHANGED <<max_retries, fa_return>>
    /\ UNCHANGED <<pipeVars, notifyVars, mainVars, chatVars, bookVars>>

\* Lines 105-108: the download is None or empty: continue.
FetchAttemptEmpty ==
    /\ fpc = "loop" /\ attempt < max_retries
    /\ attempt' = attempt + 1
    /\ attemptLog' = Append(attemptLog, "empty")
    /\ raw' = <<>>
    /\ UNCHANGED <<fpc, max_retries, fetched, fa_return>>
    /\ UNCHANGED <<pipeVars, notifyVars, mainVars, chatVars, bookVars>>

\* Lines 109-145: the download is not empty but a statement of the
\* normalisation raises (e.g. c.lower() on a column label that is a tuple);
\* the same except clause catches it and the loop goes on.
FetchAttemptNormalizeRaise ==
    /\ fpc = "loop" /\ attempt < max_retries
    /\ attempt' = attempt + 1
    /\ attemptLog' = Append(attemptLog, "raise")
    /\ raw' \in RawFrames
    /\ UNCHANGED <<fpc, max_retries, fetched, fa_return>>
    /\ UNCHANGED <<pipeVars, notifyVars, mainVars, chatVars, bookVars>>

\* Lines 105-143: the download is not empty and is returned normalised.
FetchAttemptOk ==
    /\ fpc = "loop" /\ attempt < max_retries
    /\ attempt' = attempt + 1
    /\ attemptLog' = Append(attemptLog, "ok")
    /\ \E f \in RawFrames :
          /\ raw' = f
          /\ fetched' = [none |-> FALSE, rows |-> normalize(f)]
    /\ fpc' = "returned"
    /\ UNCHANGED <<max_retries, fa_return>>
    /\ UNCHANGED <<pipeVars, notifyVars, mainVars, chatVars, bookVars>>

\* Line 146: range(max_retries) is used up: return None.
FetchExhausted ==
    /\ fpc = "loop" /\ attempt >= max_retries
    /\ fetched' = NoFrame
    /\ fpc' = "returned"
    /\ UNCHANGED <<max_retries, attempt, attemptLog, raw, fa_return>>
    /\ UNCHANGED <<pipeVars, notifyVars, mainVars, chatVars, bookVars>>

\* Lines 323-326 of fetch_and_analyze: None or an empty frame gives None,
\* anything else goes on to calculate_indicators.
FetchAndAnalyzeTest ==
    /\ fpc = "returned"
    /\ fa_return' = IF fetched.none \/ fetched.rows = <<>> THEN "None" ELSE "goes on"
    /\ fpc' = "done"
    /\ UNCHANGED <<max_retries, attempt, attemptLog, raw, fetched>>
    /\ UNCHANGED <<pipeVars, notifyVars, mainVars, chatVars, bookVars>>

NextFetch ==
    \/ FetchAttemptRaise
    \/ FetchAttemptEmpty
    \/ FetchAttemptNormalizeRaise
    \/ FetchAttemptOk
    \/ FetchExhausted
    \/ FetchAndAnalyzeTest

SpecFetch == InitFetch /\ [][NextFetch]_vars

\* Every call the function makes returns or raises (yfinance applies its own
\* request timeout), so a step that is possible is eventually taken.
SpecFetchLive == SpecFetch /\ WF_vars(NextFetch)

---------------------------------------------------------------------------
\* Claims about fetch_intraday_yfinance, checked under SpecFetchLive.

C12_Failed(k) == attemptLog[k] \in {"raise", "empty"}

C12_IsNormalized(f) ==
    /\ \A i \in 1..Len(f) : f[i].close # NaN
    /\ \A i, j \in 1..Len(f) : i < j => f[i].datetime < f[j].datetime
    /\ {f[i] : i \in 1..Len(f)} = {r \in Range(raw) : r.close # NaN}

C12_Returned ==
    /\ attempt <= max_retries /\ Len(attemptLog) = attempt
    /\ fpc \in {"returned", "done"} =>
          IF fetched.none
          THEN /\ attempt = max_retries
               /\ \A k \in 1..attempt : C12_Failed(k)
          ELSE /\ attempt >= 1
               /\ attemptLog[attempt] = "ok"
               /\ \A k \in 1..(attempt - 1) : C12_Failed(k)
               /\ C12_IsNormalized(fetched.rows)
    /\ fpc = "done" /\ fetched.none => fa_return = "None"

\* C12: fetch_intraday_yfinance ends after at most max_retries download
\* attempts; it returns the normalised series of the first attempt that
\* neither raises nor comes back empty, and None, without raising, when every
\* attempt raised or came back empty, upon which fetch_and_analyze returns
\* None.
C12_BoundedRetries == [](C12_Returned) /\ <>(fpc = "done")

C12_Witness ==
    /\ fpc = "done" /\ max_retries = 2
    /\ attemptLog = <<"raise", "empty">>
    /\ fetched.none /\ fa_return = "None"

---------------------------------------------------------------------------
\* Claims about the stop-loss pass, checked under SpecMain.

\* The symbol of a portfolio entry has a row in the ranking and its price is
\* down from the entry price by STOP_LOSS_PERCENT or more.
C13_Down(entry) ==
    /\ RowsOf(df_res, entry.symbol) # <<>>
    /\ LET row == RowsOf(df_res, entry.symbol)[1]
       IN  (row.price - entry.entry_price) * 100
               <= (0 - STOP_LOSS_PERCENT) * entry.entry_price

C13_Alerted(log, sym) ==
    \E k \in 1..Len(log) : log[k].kind = "STOP-LOSS" /\ log[k].symbol = sym

\* C13 as stated: every portfolio symbol the stop-loss pass has gone through
\* that has a row in the scan results and is down by at least
\* STOP_LOSS_PERCENT has a STOP-LOSS alert, shown and sent to the notifier,
\* whatever its signal and future_potential.
C13_StopLossAlways ==
    mpc \in {"stoploss", "done"} =>
        \A i \in 1..Len(portfolio) :
            i < pIdx /\ C13_Down(portfolio[i]) =>
                /\ C13_Alerted(alerts, portfolio[i].symbol)
                /\ C13_Alerted(sent, portfolio[i].symbol)

---------------------------------------------------------------------------
\* The sidebar of main.py: Enter Buy (lines 59-77) and Enter Sell (81-96).
\* Every press reruns the script: portfolio.json is loaded (line 38), the
\* handler of the pressed button runs, and an accepted order is saved.
\* Amounts are whole rupees; among them the test of line 66,
\* invest > left_now + 1e-6, is invest > left_now.

\* Line 59: the symbols offered, with the ".NS" of line 63.
BuyTickers == {NIFTY50[i] : i \in 1..MaxHeld}

\* Line 60: buy_price, a number_input with min_value 0.
BuyPrices == {0, 300000, 500000, TOTAL_CAPITAL}

\* Lines 43-48.
RECURSIVE used_capital(_)
used_capital(p) ==
    IF p = <<>> THEN 0
    ELSE p[1].entry_price * p[1].quantity + used_capital(Tail(p))

left_capital(p) == TOTAL_CAPITAL - used_capital(p)

\* portfolio[ticker] = entry on an insertion-ordered dict (line 71).
dict_set(p, entry) ==
    IF InPortfolio(p, entry.symbol)
    THEN [i \in 1..Len(p) |-> IF p[i].symbol = entry.symbol THEN entry ELSE p[i]]
    ELSE Append(p, entry)

\* del portfolio[sym] (line 94).
dict_del(p, sym) == SelectSeq(p, LAMBDA x : x.symbol # sym)

\* Line 81: the options of the sell selectbox.
SellOptions(p) == {""} \cup {p[i].symbol : i \in 1..Len(p)}

InitBook ==
    /\ portfolio = <<>>
    /\ portfolio_file = <<>>
    /\ sidebar = ""
    /\ mpc = "idle" /\ outcome = <<>> /\ sIdx = 0 /\ visited = <<>>
    /\ all_data = {} /\ forecast_data = {}
    /\ results = <<>> /\ df_res = <<>> /\ top_10 = <<>>
    /\ pIdx = 0 /\ alerts = <<>> /\ sent = <<>>
    /\ PipeIdle
    /\ NotifyIdle
    /\ ChatsIdle
    /\ FetchIdle

\* Mutant: the order is tested against the whole capital, not against what
\* is left of it.
EnterBuy_total ==
    \E ticker \in BuyTickers, buy_price \in BuyPrices, buy_qty \in 0..MaxQty :
        LET invest == buy_price * buy_qty
            loaded == portfolio_file
        IN  /\ IF invest > TOTAL_CAPITAL
               THEN /\ sidebar' = "Insufficient capital"
                    /\ portfolio' = loaded
                    /\ UNCHANGED portfolio_file
               ELSE IF buy_qty <= 0
               THEN /\ sidebar' = "Enter quantity > 0"
                    /\ portfolio' = loaded
                    /\ UNCHANGED portfolio_file
               ELSE /\ portfolio' = dict_set(loaded, [symbol |-> ticker,
                                         entry_price |-> buy_price, quantity |-> buy_qty])
                    /\ portfolio_file' = portfolio'
                    /\ sidebar' = "Saved buy"
            /\ UNCHANGED <<mpc, outcome, sIdx, visited, all_data, forecast_data,
                           results, df_res, top_10, pIdx, alerts, sent>>
            /\ UNCHANGED <<pipeVars, notifyVars, chatVars, fetchVars>>

\* Lines 38, 62-77: Enter Buy.
EnterBuy ==
    \E ticker \in BuyTickers, buy_price \in BuyPrices, buy_qty \in 0..MaxQty :
        LET invest == buy_price * buy_qty
            loaded == portfolio_file
        IN  /\ IF invest > left_capital(loaded)
               THEN /\ sidebar' = "Insufficient capital"
                    /\ portfolio' = loaded
                    /\ UNCHANGED portfolio_file
               ELSE IF buy_qty <= 0
               THEN /\ sidebar' = "Enter quantity > 0"
                    /\ portfolio' = loaded
                    /\ UNCHANGED portfolio_file
               ELSE /\ portfolio' = dict_set(loaded, [symbol |-> ticker,
                                         entry_price |-> buy_price, quantity |-> buy_qty])
                    /\ portfolio_file' = portfolio'
                    /\ sidebar' = "Saved buy"
            /\ UNCHANGED <<mpc, outcome, sIdx, visited, all_data, forecast_data,
                           results, df_res, top_10, pIdx, alerts, sent>>
            /\ UNCHANGED <<pipeVars, notifyVars, chatVars, fetchVars>>

\* Lines 38, 81-96: Enter Sell.  The quantity entered may exceed what is held.
EnterSell ==
    LET loaded == portfolio_file
    IN  \E sell_symbol \in SellOptions(loaded), sell_qty \in 0..(MaxQty + 1) :
            /\ IF sell_symbol = ""
               THEN /\ sidebar' = "Choose a symbol"
                    /\ portfolio' = loaded
                    /\ UNCHANGED portfolio_file
               ELSE IF ~InPortfolio(loaded, sell_symbol)
               THEN /\ sidebar' = "Symbol not in portfolio"
                    /\ portfolio' = loaded
                    /\ UNCHANGED portfolio_file
               ELSE IF sell_qty <= 0 \/ sell_qty > EntryOf(loaded, sell_symbol).quantity
               THEN /\ sidebar' = "Invalid sell quantity"
                    /\ portfolio' = loaded
                    /\ UNCHANGED portfolio_file
               ELSE LET old  == EntryOf(loaded, sell_symbol)
                        kept == [old EXCEPT !.quantity = old.quantity - sell_qty]
                    IN  /\ portfolio' = IF kept.quantity = 0
                                        THEN dict_del(loaded, sell_symbol)
                                        ELSE dict_set(loaded, kept)
                        /\ portfolio_file' = portfolio'
                        /\ sidebar' = "Sold"
            /\ UNCHANGED <<mpc, outcome, sIdx, visited, all_data, forecast_data,
                           results, df_res, top_10, pIdx, alerts, sent>>
            /\ UNCHANGED <<pipeVars, notifyVars, chatVars, fetchVars>>

NextBook == EnterBuy \/ EnterSell

SpecBook == InitBook /\ [][NextBook]_vars

---------------------------------------------------------------------------
\* Claims about the portfolio, checked under SpecBook.

C14_Rejections ==
    {"Insufficient capital", "Enter quantity > 0", "Choose a symbol",
     "Symbol not in portfolio", "Invalid sell quantity"}

C14_Used(p) == used_capital(p)

C14_Bounded ==
    /\ C14_Used(portfolio) <= TOTAL_CAPITAL
    /\ C14_Used(portfolio_file) <= TOTAL_CAPITAL
    /\ \A i \in 1..Len(portfolio) : portfolio[i].quantity >= 1
    /\ \A i \in 1..Len(portfolio_file) : portfolio_file[i].quantity >= 1

C14_RejectedKeeps ==
    sidebar' \in C14_Rejections =>
        portfolio' = portfolio /\ portfolio_file' = portfolio_file

\* C14: starting from an empty portfolio, after any sequence of Enter Buy and
\* Enter Sell presses the used capital never exceeds TOTAL_CAPITAL and every
\* stored entry has quantity >= 1, and a rejected buy or sell leaves the
\* portfolio as it was.
C14_CapitalKept == [](C14_Bounded) /\ [][C14_RejectedKeeps]_vars

C14_Witness ==
    /\ portfolio = <<[symbol |-> NIFTY50[1], entry_price |-> 500000, quantity |-> 1],
                     [symbol |-> NIFTY50[2], entry_price |-> 500000, quantity |-> 1]>>
    /\ C14_Used(portfolio) = TOTAL_CAPITAL
    /\ sidebar = "Insufficient capital"

====
